---- MODULE Spec2Model ----
(***************************************************************************)
(* Model of the Grafo class of GrafoApp, in its two historical variants:   *)
(*   "main11" : src/main-11.py        (mirrored undirected storage,        *)
(*              degree sequence, Eulerian and Hamiltonian checks)          *)
(*   "main1"  : src/unnamed/part_000  (header "main (1).py": no mirroring, *)
(*              Kosaraju components, reduced graph, category)              *)
(* A Python dict is modelled by the sequence of its keys in insertion      *)
(* order together with a function from the keys to the values.  A Vertice  *)
(* is represented by its id alone: rotulo and meta are payload that no     *)
(* modelled method reads.  An Optional[str] weight is a sequence of length *)
(* at most one: None is <<>>, the string s is <<s>>.                       *)
(* removidos is a history variable, no field of the program: for every id  *)
(* that remover_vertice took out, whether edges were stored at it when it  *)
(* was last taken out.  Only SpecReinsercao records it.                    *)
(***************************************************************************)
EXTENDS Integers, Sequences, FiniteSets, TLC

VARIABLES variante, tipo, vertices, adjKeys, adj, res, removidos

vars == <<variante, tipo, vertices, adjKeys, adj, res, removidos>>

\* ---------------------------------------------------------------- bounds
\* Ids the callers draw from, and the number of stored Aresta objects up to
\* which adicionar_aresta is still called.
MaxId == 3
MaxArestas == 3
\* The same two bounds for the files carregar_grafo reads
MaxIdArquivo == 2
MaxArestasArquivo == 4
\* The same two bounds for the directed analyses of main (1).py
MaxIdDirigido == 4
MaxArestasDirigido == 4

\* ------------------------------------------------------ program constants
TipoPadrao == 0
TipoNaoDirigido == 3

Variantes == {"main11", "main1"}
Tipos == {TipoPadrao, TipoNaoDirigido}
Ids == 1..MaxId
IdsArquivo == 1..MaxIdArquivo
IdsDirigido == 1..MaxIdDirigido

\* ---------------------------------------------------------------- helpers
Range(s) == {s[i] : i \in DOMAIN s}

None == <<>>
Some(s) == <<s>>

\* Aresta.__init__
Aresta(origem, destino, peso) ==
  [origem |-> origem, destino |-> destino, peso |-> peso]

\* parse_aresta on a line already cut at its commas, every field stripped and
\* the two ids converted: the weight is the third field when there is one (an
\* empty third field, as in "1, 2,", gives the empty string), None otherwise.
parse_aresta(parts) ==
  [origem |-> parts[1], destino |-> parts[2],
   peso |-> IF Len(parts) >= 3 THEN Some(parts[3]) ELSE None]

\* menu option d: input(...).strip() or None
peso_do_menu(texto) == IF texto = "" THEN None ELSE Some(texto)

\* The weights the menu hands to adicionar_aresta: None or a non-empty text
PesosMenu == {peso_do_menu(t) : t \in {"", "a"}}

\* The edge lines of grafo.txt: "o, d", "o, d," and "o, d, a"
Linhas(ids) ==
  {<<o, d>> : o \in ids, d \in ids}
    \cup {<<o, d, t>> : o \in ids, d \in ids, t \in {"", "a"}}

\* dict.get(k, [])
AdjGet(a, k) == IF k \in DOMAIN a THEN a[k] ELSE <<>>

\* dict.setdefault(k, []).append(e), on a graph record
AdjAppend(g, k, e) ==
  IF k \in DOMAIN g.adj
    THEN [g EXCEPT !.adj = [g.adj EXCEPT ![k] = Append(@, e)]]
    ELSE [g EXCEPT !.adjKeys = Append(g.adjKeys, k),
                   !.adj = [x \in DOMAIN g.adj \cup {k} |->
                              IF x = k THEN <<e>> ELSE g.adj[x]]]

\* any(e.destino == destino and e.peso == peso for e in lista)
TemAresta(lista, destino, peso) ==
  \E i \in DOMAIN lista :
    lista[i].destino = destino /\ lista[i].peso = peso

SemId(s, id) == SelectSeq(s, LAMBDA x : x # id)
SemDestino(lista, id) == SelectSeq(lista, LAMBDA e : e.destino # id)

\* The graph object: self.vertices (keys in insertion order), self.adj (keys
\* in insertion order, and the list of each key)
Grafo == [vertices |-> vertices, adjKeys |-> adjKeys, adj |-> adj]

\* A method's outcome: the graph it leaves and the flag it returns
Saida(g, ret) == [g |-> g, ret |-> ret]

\* ------------------------------------------------------------- mutations
\* Grafo.adicionar_vertice (the same effect in both variants)
adicionar_vertice(g, id) ==
  IF id \in Range(g.vertices)
    THEN Saida(g, FALSE)
    ELSE Saida([vertices |-> Append(g.vertices, id),
                adjKeys |-> IF id \in DOMAIN g.adj THEN g.adjKeys
                            ELSE Append(g.adjKeys, id),
                adj |-> IF id \in DOMAIN g.adj THEN g.adj
                        ELSE [x \in DOMAIN g.adj \cup {id} |->
                                IF x = id THEN <<>> ELSE g.adj[x]]],
               TRUE)

\* remover_vertice that forgets self.adj.pop(id_, None)
remover_vertice_sem_pop(g, id) ==
  IF id \notin Range(g.vertices)
    THEN Saida(g, FALSE)
    ELSE Saida([vertices |-> SemId(g.vertices, id),
                adjKeys |-> g.adjKeys,
                adj |-> [x \in DOMAIN g.adj |-> SemDestino(g.adj[x], id)]],
               TRUE)

\* remover_vertice without the pass over the other lists
remover_vertice_sem_varredura(g, id) ==
  IF id \notin Range(g.vertices)
    THEN Saida(g, FALSE)
    ELSE Saida([vertices |-> SemId(g.vertices, id),
                adjKeys |-> SemId(g.adjKeys, id),
                adj |-> [x \in DOMAIN g.adj \ {id} |-> g.adj[x]]],
               TRUE)

\* Grafo.remover_vertice (the same effect in both variants)
remover_vertice(g, id) ==
  IF id \notin Range(g.vertices)
    THEN Saida(g, FALSE)
    ELSE Saida([vertices |-> SemId(g.vertices, id),
                adjKeys |-> SemId(g.adjKeys, id),
                adj |-> [x \in DOMAIN g.adj \ {id} |->
                           SemDestino(g.adj[x], id)]],
               TRUE)

\* Grafo.adicionar_aresta of main-11.py: mirrors the edge when tipo == 3
adicionar_aresta_main11(g, origem, destino, peso) ==
  IF origem \notin Range(g.vertices) \/ destino \notin Range(g.vertices)
    THEN Saida(g, FALSE)
  ELSE IF TemAresta(AdjGet(g.adj, origem), destino, peso)
    THEN Saida(g, FALSE)
  ELSE
    LET g1 == AdjAppend(g, origem, Aresta(origem, destino, peso))
    IN IF tipo = TipoNaoDirigido
            /\ ~TemAresta(AdjGet(g1.adj, destino), origem, peso)
         THEN Saida(AdjAppend(g1, destino, Aresta(destino, origem, peso)),
                    TRUE)
         ELSE Saida(g1, TRUE)

\* Grafo.adicionar_aresta of main (1).py: stores the forward edge only
adicionar_aresta_main1(g, origem, destino, peso) ==
  IF origem \notin Range(g.vertices) \/ destino \notin Range(g.vertices)
    THEN Saida(g, FALSE)
  ELSE IF TemAresta(AdjGet(g.adj, origem), destino, peso)
    THEN Saida(g, FALSE)
  ELSE Saida(AdjAppend(g, origem, Aresta(origem, destino, peso)), TRUE)

adicionar_aresta(g, origem, destino, peso) ==
  IF variante = "main11"
    THEN adicionar_aresta_main11(g, origem, destino, peso)
    ELSE adicionar_aresta_main1(g, origem, destino, peso)

\* remover_aresta that forgets the mirror
remover_aresta_sem_espelho(g, origem, destino) ==
  IF origem \notin DOMAIN g.adj
    THEN Saida(g, FALSE)
    ELSE
      LET original == Len(g.adj[origem])
          a1 == [g.adj EXCEPT ![origem] = SemDestino(@, destino)]
      IN Saida([g EXCEPT !.adj = a1], Len(a1[origem]) < original)

\* remover_aresta that filters the mirror without asking for the kind
remover_aresta_sem_tipo(g, origem, destino) ==
  IF origem \notin DOMAIN g.adj
    THEN Saida(g, FALSE)
    ELSE
      LET original == Len(g.adj[origem])
          a1 == [g.adj EXCEPT ![origem] = SemDestino(@, destino)]
          a2 == IF destino \in DOMAIN a1
                  THEN [a1 EXCEPT ![destino] = SemDestino(@, origem)]
                  ELSE a1
      IN Saida([g EXCEPT !.adj = a2], Len(a2[origem]) < original)

\* Grafo.remover_aresta of main-11.py: also filters the mirror when tipo == 3
remover_aresta_main11(g, origem, destino) ==
  IF origem \notin DOMAIN g.adj
    THEN Saida(g, FALSE)
    ELSE
      LET original == Len(g.adj[origem])
          a1 == [g.adj EXCEPT ![origem] = SemDestino(@, destino)]
          a2 == IF tipo = TipoNaoDirigido /\ destino \in DOMAIN a1
                  THEN [a1 EXCEPT ![destino] = SemDestino(@, origem)]
                  ELSE a1
      IN Saida([g EXCEPT !.adj = a2], Len(a2[origem]) < original)

\* Grafo.remover_aresta of main (1).py
remover_aresta_main1(g, origem, destino) ==
  IF origem \notin DOMAIN g.adj
    THEN Saida(g, FALSE)
    ELSE
      LET original_len == Len(g.adj[origem])
          a1 == [g.adj EXCEPT ![origem] = SemDestino(@, destino)]
      IN Saida([g EXCEPT !.adj = a1], Len(a1[origem]) < original_len)

remover_aresta(g, origem, destino) ==
  IF variante = "main11"
    THEN remover_aresta_main11(g, origem, destino)
    ELSE remover_aresta_main1(g, origem, destino)

\* One turn of the edge loop of carregar_grafo in main-11.py
carregar_aresta_main11(g, linha) ==
  LET a == parse_aresta(linha)
  IN adicionar_aresta(g, a.origem, a.destino, a.peso)

\* One turn of the edge loop of carregar_grafo in main (1).py, which first
\* creates the endpoints the file did not declare
carregar_aresta_main1(g, linha) ==
  LET a == parse_aresta(linha)
      g1 == IF a.origem \notin Range(g.vertices)
              THEN adicionar_vertice(g, a.origem).g ELSE g
      g2 == IF a.destino \notin Range(g1.vertices)
              THEN adicionar_vertice(g1, a.destino).g ELSE g1
  IN adicionar_aresta(g2, a.origem, a.destino, a.peso)

carregar_aresta(g, linha) ==
  IF variante = "main11"
    THEN carregar_aresta_main11(g, linha)
    ELSE carregar_aresta_main1(g, linha)

\* Grafo.lista_arestas: the adjacency lists, concatenated in key order
RECURSIVE Concatenar(_, _)
Concatenar(keys, a) ==
  IF keys = <<>> THEN <<>>
  ELSE a[Head(keys)] \o Concatenar(Tail(keys), a)

lista_arestas == Concatenar(adjKeys, adj)

\* ------------------------------------------------------------- analyses
Ultimo(s) == s[Len(s)]
SemUltimo(s) == SubSeq(s, 1, Len(s) - 1)
Destinos(lista) == [i \in DOMAIN lista |-> lista[i].destino]
Origens(lista) == [i \in DOMAIN lista |-> lista[i].origem]

\* The while loop of conexo_nao_direcionado in main-11.py: pop, skip a visited
\* vertex, mark, push the unvisited destinations of its adjacency list.
RECURSIVE busca_main11(_, _)
busca_main11(pilha, visitados) ==
  IF pilha = <<>> THEN visitados
  ELSE
    LET u == Ultimo(pilha)
        resto == SemUltimo(pilha)
    IN IF u \in visitados THEN busca_main11(resto, visitados)
       ELSE
         LET vis == visitados \cup {u}
             saem == SelectSeq(Destinos(AdjGet(adj, u)),
                               LAMBDA d : d \notin vis)
         IN busca_main11(resto \o saem, vis)

\* The loop of main (1).py without its scan of the entering edges
busca_sem_entradas(pilha, visitados) == busca_main11(pilha, visitados)

\* The same loop in main (1).py, which also pushes the unvisited sources of
\* the edges that enter u (every list is scanned, in key order; the key of a
\* list is the origem of each of its edges).
RECURSIVE busca_main1(_, _)
busca_main1(pilha, visitados) ==
  IF pilha = <<>> THEN visitados
  ELSE
    LET u == Ultimo(pilha)
        resto == SemUltimo(pilha)
    IN IF u \in visitados THEN busca_main1(resto, visitados)
       ELSE
         LET vis == visitados \cup {u}
             saem == SelectSeq(Destinos(AdjGet(adj, u)),
                               LAMBDA d : d \notin vis)
             entram == Origens(SelectSeq(lista_arestas,
                         LAMBDA e : e.destino = u /\ e.origem \notin vis))
         IN busca_main1((resto \o saem) \o entram, vis)

\* The vertices the traversal marks when it starts at inicio
visitados_desde(inicio) ==
  IF variante = "main11"
    THEN busca_main11(<<inicio>>, {})
    ELSE busca_main1(<<inicio>>, {})

\* Grafo.conexo_nao_direcionado: starts at the first key of self.vertices
conexo_nao_direcionado ==
  IF vertices = <<>> THEN TRUE
  ELSE Cardinality(visitados_desde(vertices[1])) = Len(vertices)

\* The undirected count without the origem < destino test
grau_de_aresta_sem_teste(graus, origem, e) ==
  IF tipo = TipoNaoDirigido
    THEN [x \in DOMAIN graus |->
            graus[x] + (IF x = origem THEN 1 ELSE 0)
                     + (IF x = e.destino THEN 1 ELSE 0)]
    ELSE [graus EXCEPT ![origem] = @ + 1]

\* One edge of the double loop of calcular_graus
grau_de_aresta(graus, origem, e) ==
  IF tipo = TipoNaoDirigido
    THEN IF origem < e.destino
           THEN [x \in DOMAIN graus |->
                   graus[x] + (IF x = origem THEN 1 ELSE 0)
                            + (IF x = e.destino THEN 1 ELSE 0)]
           ELSE graus
    ELSE [graus EXCEPT ![origem] = @ + 1]

RECURSIVE graus_da_lista(_, _, _)
graus_da_lista(graus, origem, lista) ==
  IF lista = <<>> THEN graus
  ELSE graus_da_lista(grau_de_aresta(graus, origem, Head(lista)), origem,
                      Tail(lista))

RECURSIVE graus_das_listas(_, _)
graus_das_listas(graus, keys) ==
  IF keys = <<>> THEN graus
  ELSE graus_das_listas(graus_da_lista(graus, Head(keys), adj[Head(keys)]),
                        Tail(keys))

\* Grafo.calcular_graus (main-11.py)
calcular_graus ==
  graus_das_listas([v \in Range(vertices) |-> 0], adjKeys)

\* Grafo.tem_ciclo_euleriano (main-11.py): the returned flag, the line it
\* prints, and the list of odd-degree vertices it prints (in key order)
tem_ciclo_euleriano ==
  IF tipo # TipoNaoDirigido
    THEN [ret |-> FALSE, msg |-> "so_nao_dirigidos", dados |-> <<>>]
  ELSE IF ~conexo_nao_direcionado
    THEN [ret |-> FALSE, msg |-> "nao_conexo", dados |-> <<>>]
  ELSE
    LET graus == calcular_graus
        impares == SelectSeq(vertices, LAMBDA v : graus[v] % 2 = 1)
    IN IF impares # <<>>
         THEN [ret |-> FALSE, msg |-> "grau_impar", dados |-> impares]
         ELSE [ret |-> TRUE, msg |-> "euleriano", dados |-> <<>>]

\* The nested for/else of the Ore test: some pair i < j of keys of graus with
\* no stored edge from the first to the second and a degree sum below n
ore_violado(graus, n) ==
  \E i \in 1..n, j \in 1..n :
    /\ i < j
    /\ LET u == vertices[i]
           v == vertices[j]
       IN /\ ~\E k \in DOMAIN AdjGet(adj, u) : AdjGet(adj, u)[k].destino = v
          /\ graus[u] + graus[v] < n

\* Grafo.tem_ciclo_hamiltoniano (main-11.py)
tem_ciclo_hamiltoniano ==
  LET n == Len(vertices)
  IN IF n < 3
       THEN [ret |-> FALSE, msg |-> "muito_pequeno", dados |-> <<>>]
     ELSE IF tipo # TipoNaoDirigido
       THEN [ret |-> FALSE, msg |-> "so_nao_dirigidos", dados |-> <<>>]
     ELSE
       LET graus == calcular_graus
       IN IF \A v \in DOMAIN graus : graus[v] >= n \div 2
            THEN [ret |-> TRUE, msg |-> "dirac", dados |-> <<>>]
          ELSE IF ~ore_violado(graus, n)
            THEN [ret |-> TRUE, msg |-> "ore", dados |-> <<>>]
          ELSE [ret |-> FALSE, msg |-> "nao_garantido", dados |-> <<>>]

\* dfs1 of componentes_fortemente_conexas: marks u, descends into the
\* unvisited destinations of its list in order, then appends u to ordem.
\* st is the pair of closure variables [visitados, ordem].
RECURSIVE dfs1(_, _), dfs1_laco(_, _)
dfs1(u, st) ==
  LET st1 == [st EXCEPT !.visitados = @ \cup {u}]
      st2 == dfs1_laco(Destinos(AdjGet(adj, u)), st1)
  IN [st2 EXCEPT !.ordem = Append(@, u)]

dfs1_laco(candidatos, st) ==
  IF candidatos = <<>> THEN st
  ELSE IF Head(candidatos) \notin st.visitados
    THEN dfs1_laco(Tail(candidatos), dfs1(Head(candidatos), st))
    ELSE dfs1_laco(Tail(candidatos), st)

\* First pass: dfs1 from every unvisited key of self.vertices, in key order
ordem_de_termino ==
  dfs1_laco(vertices, [visitados |-> {}, ordem |-> <<>>]).ordem

\* transposto built without reversing the edges
transposto_sem_inverter(v) ==
  Destinos(SelectSeq(lista_arestas, LAMBDA e : e.origem = v))

\* transposto[v]: the sources of the edges that enter v, in the order the
\* lists are scanned (key order, then list order)
transposto(v) ==
  Origens(SelectSeq(lista_arestas, LAMBDA e : e.destino = v))

\* dfs2: marks u, appends it to comp, descends into the unvisited entries of
\* transposto[u].  st is [visitados, comp].
RECURSIVE dfs2(_, _), dfs2_laco(_, _)
dfs2(u, st) ==
  dfs2_laco(IF u \in Range(vertices) THEN transposto(u) ELSE <<>>,
            [visitados |-> st.visitados \cup {u}, comp |-> Append(st.comp, u)])

dfs2_laco(candidatos, st) ==
  IF candidatos = <<>> THEN st
  ELSE IF Head(candidatos) \notin st.visitados
    THEN dfs2_laco(Tail(candidatos), dfs2(Head(candidatos), st))
    ELSE dfs2_laco(Tail(candidatos), st)

\* Second pass: pop ordem from its end; every unvisited vertex seeds one
\* component
RECURSIVE segunda_passada(_, _, _)
segunda_passada(ordem, visitados, componentes) ==
  IF ordem = <<>> THEN componentes
  ELSE
    LET v == Ultimo(ordem)
    IN IF v \notin visitados
         THEN LET st == dfs2(v, [visitados |-> visitados, comp |-> <<>>])
              IN segunda_passada(SemUltimo(ordem), st.visitados,
                                 Append(componentes, st.comp))
         ELSE segunda_passada(SemUltimo(ordem), visitados, componentes)

\* Grafo.componentes_fortemente_conexas (main (1).py): Kosaraju
componentes_fortemente_conexas ==
  segunda_passada(ordem_de_termino, {}, <<>>)

\* comp_de[v] after the loop over enumerate(comps): the index, counted from
\* 0, of the last component that holds v
comp_de(comps, v) ==
  LET onde == {i \in DOMAIN comps : v \in Range(comps[i])}
  IN (CHOOSE i \in onde : \A j \in onde : j <= i) - 1

\* The step of grafo_reduzido on one stored edge, without the test cu != cv
reduzir_aresta_sem_teste(reduzido, comps, e) ==
  LET cu == comp_de(comps, e.origem)
      cv == comp_de(comps, e.destino)
  IN [k \in DOMAIN reduzido \cup {cu} |->
        IF k = cu
          THEN (IF cu \in DOMAIN reduzido THEN reduzido[cu] ELSE {})
                 \cup {cv}
          ELSE reduzido[k]]

\* The step of grafo_reduzido on one stored edge:
\* if cu != cv: reduzido.setdefault(cu, set()).add(cv)
reduzir_aresta(reduzido, comps, e) ==
  LET cu == comp_de(comps, e.origem)
      cv == comp_de(comps, e.destino)
  IN IF cu # cv
       THEN [k \in DOMAIN reduzido \cup {cu} |->
               IF k = cu
                 THEN (IF cu \in DOMAIN reduzido THEN reduzido[cu] ELSE {})
                        \cup {cv}
                 ELSE reduzido[k]]
       ELSE reduzido

\* The double loop of grafo_reduzido over the lists, in key order
RECURSIVE reduzir(_, _, _)
reduzir(reduzido, comps, arestas) ==
  IF arestas = <<>> THEN reduzido
  ELSE reduzir(reduzir_aresta(reduzido, comps, Head(arestas)), comps,
               Tail(arestas))

\* Grafo.grafo_reduzido (main (1).py): the components and the dict from a
\* component index to the set of indices its edges lead to
grafo_reduzido ==
  LET comps == componentes_fortemente_conexas
  IN [comps |-> comps, reduzido |-> reduzir(<<>>, comps, lista_arestas)]

\* categoria_direcionado that does not look at the edge list
categoria_sem_arestas ==
  LET comps == componentes_fortemente_conexas
  IN IF vertices = <<>> THEN "C0"
     ELSE IF Len(comps) = 1 /\ Len(comps[1]) = Len(vertices) THEN "C3"
     ELSE IF \E i \in DOMAIN comps : Len(comps[i]) = 1 THEN "C1"
     ELSE "C2"

\* Grafo.categoria_direcionado (main (1).py)
categoria_direcionado ==
  IF vertices = <<>> THEN "C0"
  ELSE IF lista_arestas = <<>> THEN "C0"
  ELSE
    LET comps == componentes_fortemente_conexas
        unitarios == SelectSeq(comps, LAMBDA c : Len(c) = 1)
    IN IF Len(comps) = 1 /\ Len(comps[1]) = Len(vertices) THEN "C3"
       ELSE IF unitarios # <<>> /\ Len(comps) > 1 THEN "C1"
       ELSE "C2"

\* ---------------------------------------------------------------- actions
\* What the last call handed back: the method, the flag it returned (TRUE for
\* a method that returns data), the line it printed, the data it returned or
\* printed.
Resultado(op, ret, msg, dados) ==
  [op |-> op, ret |-> ret, msg |-> msg, dados |-> dados]

\* A mutation's effect on the graph object
Gravar(op, r) ==
  /\ vertices' = r.g.vertices
  /\ adjKeys' = r.g.adjKeys
  /\ adj' = r.g.adj
  /\ res' = Resultado(op, r.ret, "", <<>>)
  /\ UNCHANGED <<variante, tipo>>

Aplicar(op, r) ==
  /\ Gravar(op, r)
  /\ UNCHANGED removidos

\* Grafo.__init__: an empty graph of either kind, in either variant
Init ==
  /\ variante \in Variantes
  /\ tipo \in Tipos
  /\ vertices = <<>>
  /\ adjKeys = <<>>
  /\ adj = <<>>
  /\ res = Resultado("init", TRUE, "", <<>>)
  /\ removidos = <<>>

AdicionarVertice(id) ==
  Aplicar("adicionar_vertice", adicionar_vertice(Grafo, id))

RemoverVertice(id) ==
  Aplicar("remover_vertice", remover_vertice(Grafo, id))

\* The edges remover_vertice(id) deletes: the list of id, and every edge of
\* another list whose destination is id
Incidentes(id) ==
  {e \in UNION {Range(adj[k]) : k \in DOMAIN adj} :
     e.origem = id \/ e.destino = id}

\* remover_vertice, with the removal written to the history
RemoverVerticeRastreado(id) ==
  LET r == remover_vertice(Grafo, id)
  IN /\ Gravar("remover_vertice", r)
     /\ removidos' =
          IF r.ret
            THEN [x \in DOMAIN removidos \cup {id} |->
                    IF x = id THEN Incidentes(id) # {} ELSE removidos[x]]
            ELSE removidos

AdicionarAresta(origem, destino, peso) ==
  /\ Len(lista_arestas) < MaxArestas
  /\ Aplicar("adicionar_aresta",
             adicionar_aresta(Grafo, origem, destino, peso))

RemoverAresta(origem, destino) ==
  Aplicar("remover_aresta", remover_aresta(Grafo, origem, destino))

CarregarAresta(linha) ==
  /\ Len(lista_arestas) < MaxArestasArquivo
  /\ Aplicar("adicionar_aresta", carregar_aresta(Grafo, linha))

Analisar(op, r) ==
  /\ res' = Resultado(op, r.ret, r.msg, r.dados)
  /\ UNCHANGED <<variante, tipo, vertices, adjKeys, adj, removidos>>

ConexoNaoDirecionado ==
  Analisar("conexo_nao_direcionado",
           [ret |-> conexo_nao_direcionado, msg |-> "", dados |-> <<>>])

CalcularGraus ==
  /\ variante = "main11"
  /\ Analisar("calcular_graus",
              [ret |-> TRUE, msg |-> "", dados |-> calcular_graus])

TemCicloEuleriano ==
  /\ variante = "main11"
  /\ Analisar("tem_ciclo_euleriano", tem_ciclo_euleriano)

TemCicloHamiltoniano ==
  /\ variante = "main11"
  /\ Analisar("tem_ciclo_hamiltoniano", tem_ciclo_hamiltoniano)

ComponentesFortementeConexas ==
  /\ variante = "main1"
  /\ Analisar("componentes_fortemente_conexas",
              [ret |-> TRUE, msg |-> "",
               dados |-> componentes_fortemente_conexas])

GrafoReduzido ==
  /\ variante = "main1"
  /\ Analisar("grafo_reduzido",
              [ret |-> TRUE, msg |-> "", dados |-> grafo_reduzido])

CategoriaDirecionado ==
  /\ variante = "main1"
  /\ Analisar("categoria_direcionado",
              [ret |-> TRUE, msg |-> categoria_direcionado, dados |-> <<>>])

\* adicionar_aresta without a weight, called while the directed graph holds
\* fewer than MaxArestasDirigido edges
AdicionarArestaDirigida(origem, destino) ==
  /\ Len(lista_arestas) < MaxArestasDirigido
  /\ Aplicar("adicionar_aresta",
             adicionar_aresta(Grafo, origem, destino, None))

Next ==
  \/ ConexoNaoDirecionado
  \/ ComponentesFortementeConexas
  \/ GrafoReduzido
  \/ CategoriaDirecionado
  \/ CalcularGraus
  \/ TemCicloEuleriano
  \/ TemCicloHamiltoniano
  \/ \E id \in Ids : AdicionarVertice(id)
  \/ \E id \in Ids : RemoverVertice(id)
  \/ \E o \in Ids, d \in Ids, p \in PesosMenu : AdicionarAresta(o, d, p)
  \/ \E o \in Ids, d \in Ids : RemoverAresta(o, d)

Spec == Init /\ [][Next]_vars

\* carregar_grafo: the vertex lines, then the edge lines, of a file
NextArquivo ==
  \/ \E id \in IdsArquivo : AdicionarVertice(id)
  \/ \E linha \in Linhas(IdsArquivo) : CarregarAresta(linha)

SpecArquivo == Init /\ [][NextArquivo]_vars

\* The four mutations of the menu, every edge without a weight and every
\* removal of a vertex recorded
NextReinsercao ==
  \/ \E id \in Ids : AdicionarVertice(id)
  \/ \E id \in Ids : RemoverVerticeRastreado(id)
  \/ \E o \in Ids, d \in Ids : AdicionarAresta(o, d, None)
  \/ \E o \in Ids, d \in Ids : RemoverAresta(o, d)

SpecReinsercao == Init /\ [][NextReinsercao]_vars

\* main (1).py: a directed graph of up to MaxIdDirigido vertices is built,
\* and its category is asked for
InitDirigido ==
  /\ Init
  /\ variante = "main1"
  /\ tipo = TipoPadrao

NextDirigido ==
  \/ CategoriaDirecionado
  \/ \E id \in IdsDirigido : AdicionarVertice(id)
  \/ \E o \in IdsDirigido, d \in IdsDirigido : AdicionarArestaDirigida(o, d)

SpecDirigido == InitDirigido /\ [][NextDirigido]_vars

\* ------------------------------------------------------------ properties
\* Graph-theoretic notions, stated on the stored edges without the
\* traversals of the program.
V == Range(vertices)
Guardadas == UNION {Range(adj[k]) : k \in DOMAIN adj}
NaoDirigidoMain11 == variante = "main11" /\ tipo = TipoNaoDirigido
Mutacoes ==
  {"adicionar_vertice", "remover_vertice", "adicionar_aresta",
   "remover_aresta"}

\* The vertices some vertex of S reaches along stored edges, forwards
RECURSIVE Alcancados(_)
Alcancados(S) ==
  LET T == S \cup {e.destino : e \in {x \in Guardadas : x.origem \in S}}
  IN IF T = S THEN S ELSE Alcancados(T)

\* The same, with every stored edge usable in both directions
RECURSIVE Ligados(_)
Ligados(S) ==
  LET T == S \cup {e.destino : e \in {x \in Guardadas : x.origem \in S}}
             \cup {e.origem : e \in {x \in Guardadas : x.destino \in S}}
  IN IF T = S THEN S ELSE Ligados(T)

Conectado == \A u \in V : Ligados({u}) = V

\* A logical edge of an undirected graph: its two endpoints in ascending
\* order and its weight.  The degree of v counts, for every logical edge, each
\* of its two ends that is v.
Logicas ==
  {<<IF e.origem < e.destino THEN e.origem ELSE e.destino,
     IF e.origem < e.destino THEN e.destino ELSE e.origem,
     e.peso>> : e \in Guardadas}
Grau(v) ==
  Cardinality({l \in Logicas : l[1] = v})
    + Cardinality({l \in Logicas : l[2] = v})

\* C1: every stored edge has its origin and its destination in the vertex
\* map, whatever sequence of the four mutations built the graph.
C1_ExtremosExistem ==
  \A k \in DOMAIN adj : \A i \in DOMAIN adj[k] :
    /\ adj[k][i].origem \in V
    /\ adj[k][i].destino \in V
    /\ k \in V

\* A vertex was just removed and edges between the others remain stored.
C1_Witness ==
  /\ res.op = "remover_vertice"
  /\ res.ret
  /\ Guardadas # {}
  /\ Len(vertices) = 2

\* The mirror invariant of an undirected graph of main-11.py, and what one
\* step of adicionar_aresta or remover_aresta must leave behind.
C2_EspelhoInv ==
  NaoDirigidoMain11 =>
    \A u \in DOMAIN adj : \A i \in DOMAIN adj[u] :
      /\ adj[u][i].origem = u
      /\ TemAresta(AdjGet(adj, adj[u][i].destino), u, adj[u][i].peso)

C2_Passo ==
  NaoDirigidoMain11 =>
    \A u \in Ids, v \in Ids :
      /\ \A w \in PesosMenu :
           (res'.op = "adicionar_aresta" /\ res'.ret
              /\ AdicionarAresta(u, v, w)) =>
             /\ TemAresta(AdjGet(adj', u), v, w)
             /\ TemAresta(AdjGet(adj', v), u, w)
      /\ (res'.op = "remover_aresta" /\ RemoverAresta(u, v)) =>
           \A e \in UNION {Range(adj'[k]) : k \in DOMAIN adj'} :
             /\ ~(e.origem = u /\ e.destino = v)
             /\ ~(e.origem = v /\ e.destino = u)

\* C2: in an undirected graph of main-11.py the list of u holds (u, v, w)
\* exactly when the list of v holds (v, u, w); a successful
\* adicionar_aresta(u, v, w) leaves both stored, and remover_aresta(u, v)
\* leaves no edge between u and v in either list.
C2_Espelho == [](C2_EspelhoInv) /\ [][C2_Passo]_vars

\* An undirected edge between two distinct vertices was just added and is
\* stored in both lists.
C2_Witness ==
  /\ NaoDirigidoMain11
  /\ res.op = "adicionar_aresta"
  /\ res.ret
  /\ \E u \in DOMAIN adj, v \in DOMAIN adj :
       /\ u # v
       /\ TemAresta(adj[u], v, Some("a"))
       /\ TemAresta(adj[v], u, Some("a"))

\* A step that ends with a mutation's failure flag changes nothing stored.
C3_Passo ==
  (res'.op \in Mutacoes /\ res'.ret = FALSE) =>
    /\ vertices' = vertices
    /\ adjKeys' = adjKeys
    /\ adj' = adj

\* C3: a mutation that returns the failure flag leaves the vertex map and
\* every adjacency list exactly as they were, in both variants and for both
\* kinds of graph.
C3_TudoOuNada == [][C3_Passo]_vars

\* remover_aresta just failed on an undirected graph that stores edges.
C3_Witness ==
  /\ tipo = TipoNaoDirigido
  /\ res.op = "remover_aresta"
  /\ res.ret = FALSE
  /\ Guardadas # {}

\* Two distinct vertices joined by a stored edge, in either direction
Vizinhos(u, v) ==
  /\ u # v
  /\ \E e \in Guardadas :
       \/ e.origem = u /\ e.destino = v
       \/ e.origem = v /\ e.destino = u

\* A closed walk through every vertex exactly once
CicloHamiltoniano ==
  LET n == Len(vertices)
  IN /\ n >= 3
     /\ \E p \in [1..n -> V] :
          /\ \A i \in 1..n, j \in 1..n : i # j => p[i] # p[j]
          /\ \A i \in 1..n : Vizinhos(p[i], p[(i % n) + 1])

\* C4: on a directed graph the components returned by
\* componentes_fortemente_conexas are the classes of mutual reachability: no
\* component is empty, every vertex is in exactly one, their union is the
\* vertex set, and two vertices share a component exactly when each reaches
\* the other along stored edges.
C4_Componentes ==
  (variante = "main1" /\ tipo # TipoNaoDirigido
     /\ res.op = "componentes_fortemente_conexas") =>
    LET comps == res.dados
        lugares == UNION {{<<i, j>> : j \in DOMAIN comps[i]} :
                            i \in DOMAIN comps}
        Lugares(v) == {l \in lugares : comps[l[1]][l[2]] = v}
        Juntos(u, v) == \E i \in DOMAIN comps :
                          u \in Range(comps[i]) /\ v \in Range(comps[i])
    IN /\ \A i \in DOMAIN comps : comps[i] # <<>>
       /\ \A v \in V : Cardinality(Lugares(v)) = 1
       /\ UNION {Range(comps[i]) : i \in DOMAIN comps} = V
       /\ \A u \in V, v \in V :
            Juntos(u, v) <=>
              (v \in Alcancados({u}) /\ u \in Alcancados({v}))

\* The components of a directed graph were computed: one of two vertices, and
\* a third vertex apart although an edge joins it to them.
C4_Witness ==
  /\ variante = "main1"
  /\ tipo # TipoNaoDirigido
  /\ res.op = "componentes_fortemente_conexas"
  /\ Len(res.dados) = 2
  /\ \E i \in DOMAIN res.dados : Len(res.dados[i]) = 2
  /\ Cardinality(Guardadas) = 3

\* C5: whenever tem_ciclo_hamiltoniano concludes, by Dirac or by Ore, that an
\* undirected graph has a Hamiltonian cycle, the graph has one.
C5_HeuristicaCorreta ==
  (NaoDirigidoMain11 /\ res.op = "tem_ciclo_hamiltoniano" /\ res.ret) =>
    CicloHamiltoniano

\* C6: on an undirected graph tem_ciclo_euleriano answers "disconnected" when
\* the graph is not connected; otherwise "no cycle" with exactly the
\* odd-degree vertices when there are any; otherwise "has Eulerian cycle"
\* (so also on the empty graph).
C6_Euleriano ==
  (NaoDirigidoMain11 /\ res.op = "tem_ciclo_euleriano") =>
    LET impares == {v \in V : Grau(v) % 2 = 1}
    IN IF ~Conectado
         THEN res.ret = FALSE /\ res.msg = "nao_conexo"
       ELSE IF impares # {}
         THEN /\ res.ret = FALSE
              /\ res.msg = "grau_impar"
              /\ Range(res.dados) = impares
              /\ Len(res.dados) = Cardinality(impares)
       ELSE res.ret = TRUE /\ res.msg = "euleriano"

\* The check just reported the odd-degree vertices of a connected graph of
\* three vertices.
C6_Witness ==
  /\ NaoDirigidoMain11
  /\ res.op = "tem_ciclo_euleriano"
  /\ res.msg = "grau_impar"
  /\ Len(vertices) = 3
  /\ Len(res.dados) = 2

\* C7: on an undirected graph conexo_nao_direcionado returns true exactly
\* when every vertex reaches every other along stored edges, from whichever
\* vertex the traversal starts; the empty graph is connected.
C7_Conexo ==
  (tipo = TipoNaoDirigido /\ res.op = "conexo_nao_direcionado") =>
    /\ res.ret = Conectado
    /\ \A s \in V :
         (Cardinality(visitados_desde(s)) = Len(vertices)) = Conectado
    /\ (vertices = <<>> => res.ret)

\* Three vertices were found connected in the variant that stores one
\* direction only, along an edge that enters the first vertex.
C7_Witness ==
  /\ tipo = TipoNaoDirigido
  /\ variante = "main1"
  /\ res.op = "conexo_nao_direcionado"
  /\ res.ret
  /\ Len(vertices) = 3
  /\ \E e \in Guardadas : e.destino = vertices[1] /\ e.origem # e.destino

\* C8: on an undirected graph calcular_graus gives every vertex the number of
\* ends of logical edges that lie on it, a mirrored pair being one logical
\* edge; no incident logical edge is left out.
C8_GrausLogicos ==
  (NaoDirigidoMain11 /\ res.op = "calcular_graus") =>
    /\ DOMAIN res.dados = V
    /\ \A v \in V : res.dados[v] = Grau(v)

\* "No weight": None or the empty string
SemPeso(p) == p = None \/ p = Some("")

\* C9: no adjacency list holds two edges with the same destination and the
\* same weight, None and the empty string both being "no weight".
C9_SemDuplicatas ==
  \A k \in DOMAIN adj : \A i \in DOMAIN adj[k], j \in DOMAIN adj[k] :
    (i # j /\ adj[k][i].destino = adj[k][j].destino) =>
      /\ adj[k][i].peso # adj[k][j].peso
      /\ ~(SemPeso(adj[k][i].peso) /\ SemPeso(adj[k][j].peso))

\* C10: an analyzer called on a graph it does not support returns something
\* other than FALSE, the value it returns for a negative result on a graph it
\* supports.
C10_NaoAplicavelDistinto ==
  /\ (res.op = "tem_ciclo_euleriano" /\ tipo # TipoNaoDirigido) =>
       res.ret # FALSE
  /\ (res.op = "tem_ciclo_hamiltoniano"
        /\ (tipo # TipoNaoDirigido \/ Len(vertices) < 3)) =>
       res.ret # FALSE

\* C11: when adicionar_vertice(v) succeeds on a vertex that remover_vertice
\* took out earlier, whatever happened in between, v has an adjacency list
\* and it is empty, and no stored edge leaves v or points to v: none of the
\* edges that were at v when it was taken out is stored.
C11_Reinsercao ==
  (res.op = "adicionar_vertice" /\ res.ret
     /\ Ultimo(vertices) \in DOMAIN removidos) =>
    LET v == Ultimo(vertices)
    IN /\ v \in DOMAIN adj
       /\ adj[v] = <<>>
       /\ \A e \in Guardadas : e.origem # v /\ e.destino # v

\* A vertex was just added again that had edges stored at it when it was
\* removed, and the two others still store an edge.
C11_Witness ==
  /\ res.op = "adicionar_vertice"
  /\ res.ret
  /\ Len(vertices) = 3
  /\ Ultimo(vertices) \in DOMAIN removidos
  /\ removidos[Ultimo(vertices)]
  /\ Guardadas # {}

\* C12: on an undirected graph of n >= 3 vertices tem_ciclo_hamiltoniano
\* answers "by Dirac" exactly when every vertex has degree >= n div 2;
\* otherwise "by Ore" exactly when every two distinct vertices that no edge
\* joins have degrees that add up to n or more; otherwise "indeterminate".
C12_TresDesfechos ==
  (NaoDirigidoMain11 /\ res.op = "tem_ciclo_hamiltoniano"
     /\ Len(vertices) >= 3) =>
    LET n == Len(vertices)
        dirac == \A v \in V : Grau(v) >= n \div 2
        ore == \A u \in V, v \in V :
                 (u # v /\ ~Vizinhos(u, v)) => Grau(u) + Grau(v) >= n
    IN IF dirac THEN res.ret /\ res.msg = "dirac"
       ELSE IF ore THEN res.ret /\ res.msg = "ore"
       ELSE ~res.ret /\ res.msg = "nao_garantido"

\* C13: on a directed graph the dict returned by grafo_reduzido has an edge
\* from component index i to component index j exactly when i # j and some
\* stored edge goes from a vertex of component i to a vertex of component j;
\* so it has no edge from a component to itself, and it has no directed cycle.
C13_Condensacao ==
  (variante = "main1" /\ tipo # TipoNaoDirigido
     /\ res.op = "grafo_reduzido") =>
    LET comps == res.dados.comps
        reduzido == res.dados.reduzido
        Indices == 0..(Len(comps) - 1)
        Liga(i, j) == i \in DOMAIN reduzido /\ j \in reduzido[i]
        Passa(i, j) == \E e \in Guardadas :
                         /\ e.origem \in Range(comps[i + 1])
                         /\ e.destino \in Range(comps[j + 1])
        Seguintes(S) == S \cup UNION {reduzido[k] : k \in S \cap DOMAIN reduzido}
        Fecho[n \in Nat, S \in SUBSET Indices] ==
          IF n = 0 THEN S ELSE Fecho[n - 1, Seguintes(S)]
    IN /\ DOMAIN reduzido \subseteq Indices
       /\ \A k \in DOMAIN reduzido : reduzido[k] \subseteq Indices
       /\ \A i \in Indices, j \in Indices :
            Liga(i, j) <=> (i # j /\ Passa(i, j))
       /\ \A i \in Indices : ~Liga(i, i)
       /\ \A i \in Indices : \A j \in Indices :
            Liga(i, j) => i \notin Fecho[Len(comps), {j}]

\* The reduced graph of three vertices was computed: a component of two
\* vertices, whose inner edges leave no trace, and an edge to the third.
C13_Witness ==
  /\ variante = "main1"
  /\ tipo # TipoNaoDirigido
  /\ res.op = "grafo_reduzido"
  /\ Len(res.dados.comps) = 2
  /\ \E i \in DOMAIN res.dados.comps : Len(res.dados.comps[i]) = 2
  /\ Cardinality(Guardadas) = 3
  /\ DOMAIN res.dados.reduzido # {}

\* The classes of mutual reachability along stored edges
Classes ==
  {{u \in V : u \in Alcancados({v}) /\ v \in Alcancados({u})} : v \in V}

\* C14: categoria_direcionado returns C0 exactly when the graph has no
\* vertices or no stored edges; otherwise C3 exactly when it has one strongly
\* connected component; otherwise C1 exactly when some component has a
\* single vertex; otherwise C2.
C14_Categoria ==
  (variante = "main1" /\ res.op = "categoria_direcionado") =>
    res.msg = IF V = {} \/ Guardadas = {} THEN "C0"
              ELSE IF Cardinality(Classes) = 1 THEN "C3"
              ELSE IF \E c \in Classes : Cardinality(c) = 1 THEN "C1"
              ELSE "C2"

\* The category of a graph of two components of two vertices each was
\* asked for, and the answer was the last label of the order.
C14_Witness ==
  /\ variante = "main1"
  /\ res.op = "categoria_direcionado"
  /\ res.msg = "C2"
  /\ Len(vertices) = 4
  /\ Cardinality(Classes) = 2

====
